---- MODULE Spec2Model ----
(***************************************************************************)
(* Model of tesi_prova.py: Merton jump-diffusion path simulation, the      *)
(* calibration objective and multi-run aggregation, the three option       *)
(* pricing routines, and the main flow that chains them.                   *)
(*                                                                         *)
(* Numbers.  A Python/NumPy float is a record [k, v]: k = "fin" with v an  *)
(* integer count of grid units (v / One is the value), k = "inf" with      *)
(* v = 1 or -1, or k = "nan".  The grid keeps Digits decimal digits and    *)
(* finite magnitudes up to MaxFloat; a result beyond MaxFloat overflows to *)
(* an infinity, a result smaller than one grid unit underflows to zero,    *)
(* as IEEE arithmetic does at its own limits.  NumPy arithmetic never      *)
(* raises (it yields inf or nan); Python int division by zero raises.      *)
(***************************************************************************)
EXTENDS Integers, Sequences, FiniteSets, TLC

\* ------------------------------------------------------------------ bounds
\* Decimal digits kept by the fixed-point grid.
Digits == 2
\* Largest finite magnitude, in whole units.
MaxFloat == 1000

One == 10 ^ Digits
MaxGrid == MaxFloat * One

\* ------------------------------------------------------- float arithmetic
F(n) == [k |-> "fin", v |-> n]
NaN == [k |-> "nan", v |-> 0]
PInf == [k |-> "inf", v |-> 1]
NInf == [k |-> "inf", v |-> -1]
None == [k |-> "None", v |-> 0]
\* A NumPy array of floats, and None where an array is expected.
NoneArray == [k |-> "None", v |-> <<>>]
Array(v) == [k |-> "array", v |-> v]

\* h hundredths, w whole units, as floats on the grid.
Dec(h) == F((h * One) \div 100)
Whole(w) == F(w * One)

IsFin(a) == a.k = "fin"
IsNaN(a) == a.k = "nan"
IsInf(a) == a.k = "inf"

Abs(n) == IF n < 0 THEN -n ELSE n
Sgn(n) == IF n < 0 THEN -1 ELSE IF n > 0 THEN 1 ELSE 0
\* Integer division truncating toward zero.
TDiv(n, d) == Sgn(n) * Sgn(d) * (Abs(n) \div Abs(d))
InfOf(s) == IF s < 0 THEN NInf ELSE PInf
\* Overflow to infinity beyond the largest finite magnitude.
Norm(n) == IF n > MaxGrid THEN PInf ELSE IF n < -MaxGrid THEN NInf ELSE F(n)
SignOf(a) == IF IsFin(a) THEN Sgn(a.v) ELSE a.v

FNeg(a) == IF IsNaN(a) THEN NaN ELSE IF IsInf(a) THEN InfOf(-a.v) ELSE F(-a.v)

FAdd(a, b) ==
    IF IsNaN(a) \/ IsNaN(b) THEN NaN
    ELSE IF IsInf(a) /\ IsInf(b) THEN (IF a.v = b.v THEN a ELSE NaN)
    ELSE IF IsInf(a) THEN a
    ELSE IF IsInf(b) THEN b
    ELSE Norm(a.v + b.v)

FSub(a, b) == FAdd(a, FNeg(b))

FMul(a, b) ==
    IF IsNaN(a) \/ IsNaN(b) THEN NaN
    ELSE IF IsInf(a) \/ IsInf(b)
         THEN (IF SignOf(a) * SignOf(b) = 0 THEN NaN ELSE InfOf(SignOf(a) * SignOf(b)))
    ELSE IF a.v = 0 \/ b.v = 0 THEN F(0)
    ELSE IF Abs(a.v) > (MaxGrid * One) \div Abs(b.v) THEN InfOf(Sgn(a.v) * Sgn(b.v))
    ELSE Norm(TDiv(a.v * b.v, One))

\* NumPy true division: x/0 is +-inf, 0/0 is nan, nothing raises.
FDiv(a, b) ==
    IF IsNaN(a) \/ IsNaN(b) THEN NaN
    ELSE IF IsInf(a) /\ IsInf(b) THEN NaN
    ELSE IF IsInf(a) THEN InfOf(a.v * (IF SignOf(b) < 0 THEN -1 ELSE 1))
    ELSE IF IsInf(b) THEN F(0)
    ELSE IF b.v = 0 THEN (IF a.v = 0 THEN NaN ELSE InfOf(a.v))
    ELSE Norm(TDiv(a.v * One, b.v))

\* a < b as IEEE compares: false whenever a nan is involved.
FLt(a, b) ==
    IF IsNaN(a) \/ IsNaN(b) THEN FALSE
    ELSE IF IsInf(a) THEN a.v < 0 /\ ~(IsInf(b) /\ b.v < 0)
    ELSE IF IsInf(b) THEN b.v > 0
    ELSE a.v < b.v

FGe(a, b) == ~IsNaN(a) /\ ~IsNaN(b) /\ ~FLt(a, b)

\* np.maximum: element-wise maximum that propagates nan.
FMaximum(a, b) ==
    IF IsNaN(a) \/ IsNaN(b) THEN NaN ELSE IF FLt(a, b) THEN b ELSE a

\* np.clip(a, lo, hi) = minimum(maximum(a, lo), hi), nan propagating.
FClip(a, lo, hi) ==
    IF IsNaN(a) THEN NaN ELSE IF FLt(a, lo) THEN lo ELSE IF FLt(hi, a) THEN hi ELSE a

\* Python's built-in min(a, b) and max(a, b): b only when it compares strictly.
PyMin(a, b) == IF FLt(b, a) THEN b ELSE a
PyMax(a, b) == IF FLt(a, b) THEN b ELSE a

\* e^(v/One) in grid units for v >= 0, or -1 when it overflows.
RECURSIVE ExpPos(_)
ExpPos(v) ==
    IF 2 * v <= One
    THEN One + v + (v * v) \div (2 * One) + (v * v * v) \div (6 * One * One)
    ELSE LET h == ExpPos(v \div 2)
         IN  IF h < 0 \/ h > (MaxGrid * One) \div h THEN -1 ELSE (h * h) \div One

\* np.exp
FExp(a) ==
    IF IsNaN(a) THEN NaN
    ELSE IF IsInf(a) THEN (IF a.v > 0 THEN PInf ELSE F(0))
    ELSE LET e == ExpPos(Abs(a.v))
         IN  IF a.v >= 0
             THEN (IF e < 0 THEN PInf ELSE Norm(e))
             ELSE (IF e < 0 THEN F(0) ELSE F((One * One) \div e))

Ln2 == (693 * One) \div 1000

\* ln(v/One) in grid units for v > 0.
RECURSIVE LnPos(_)
LnPos(v) ==
    IF v >= 2 * One THEN Ln2 + LnPos(v \div 2)
    ELSE IF v < One THEN LnPos(2 * v) - Ln2
    ELSE LET z == ((v - One) * One) \div (v + One)
         IN  2 * (z + (z * z * z) \div (3 * One * One))

\* np.log
FLog(a) ==
    IF IsNaN(a) THEN NaN
    ELSE IF IsInf(a) THEN (IF a.v > 0 THEN PInf ELSE NaN)
    ELSE IF a.v < 0 THEN NaN
    ELSE IF a.v = 0 THEN NInf
    ELSE F(LnPos(a.v))

\* The largest s in lo..hi with s*s <= n (lo*lo <= n).
RECURSIVE SqrtBis(_, _, _)
SqrtBis(n, lo, hi) ==
    IF lo >= hi THEN lo
    ELSE LET mid == (lo + hi + 1) \div 2
         IN  IF mid * mid <= n THEN SqrtBis(n, mid, hi) ELSE SqrtBis(n, lo, mid - 1)

\* np.sqrt
FSqrt(a) ==
    IF IsNaN(a) THEN NaN
    ELSE IF IsInf(a) THEN (IF a.v > 0 THEN PInf ELSE NaN)
    ELSE IF a.v < 0 THEN NaN
    ELSE F(SqrtBis(a.v * One, 0, 40000))

\* scipy.stats.norm.cdf, by the logistic approximation 1 / (1 + e^(-1.70 d)).
NormCdf(d) ==
    IF IsNaN(d) THEN NaN
    ELSE FDiv(F(One), FAdd(F(One), FExp(FMul(Dec(-170), d))))

RECURSIVE FSum(_)
FSum(s) == IF s = <<>> THEN F(0) ELSE FAdd(Head(s), FSum(Tail(s)))

\* np.mean of a one-dimensional sequence; the mean of nothing is nan.
FMean(s) == IF s = <<>> THEN NaN ELSE FDiv(FSum(s), Whole(Len(s)))

\* ------------------------------------------------------------------ bounds
\* Largest num_runs a caller of run_multiple_calibrations passes.
MaxRuns == 3

\* ------------------------------------------------------------------- state
VARIABLES
    \* run_multiple_calibrations: its arguments, loop index, the three lists,
    \* the sequence of calibrate_merton_parameters calls made so far, its
    \* returned triple, and where its control is
    cal_args, num_runs, i, results, calibrated_parameters, mses, calls, ret, cal_pc,
    \* a direct call of merton_jump_diffusion_paths or calculate_mse: its
    \* arguments, the random draws it made, what it returned or raised, and
    \* where its control is
    path_in, path_draws, path_out, path_pc,
    \* the module-level names ST and sigma_calibrated .. sigma_J_calibrated
    ambient,
    \* a call of a pricing routine: its arguments, where its control is, the
    \* loop indices and accumulator of black_scholes_with_jumps, what it
    \* returned or raised, and the draws of a Monte Carlo simulation
    p_args, p_pc, rep, hyp, acc, p_out, p_draws,
    \* the script under __main__: where its control is, the messages it has
    \* printed, the model routines it has invoked, the price column it read
    \* and the three values typed by the user
    main_pc, printed, invoked, market, entered

priceVars == <<ambient, p_args, p_pc, rep, hyp, acc, p_out, p_draws>>
mainVars == <<main_pc, printed, invoked, market, entered>>
pathVars == <<path_in, path_draws, path_out, path_pc>>
calVars == <<cal_args, num_runs, i, results, calibrated_parameters, mses, calls, ret, cal_pc>>

\* ---------------------------------------------------------- PathSimulator
\* The largest num_steps and num_simulations of a modelled call.
MaxSteps == 2
MaxPaths == 2

\* The step size: every caller leaves the default dt=1.
dt == Whole(1)

\* Line 97: the floor below which a price is clamped upward.  The source's
\* 1e-8 is placed two grid units above zero, so that the grid holds zero, a
\* positive value below the floor, the floor, and values above it.
Floor == F(2)

\* One cell of the three batched draws of lines 87-89: z is the standard
\* normal behind dW, N the Poisson jump count, zj the standard normal behind
\* the jump size.
CellDraws ==
    { [z |-> Whole(0), N |-> 0, zj |-> Whole(0)],
      [z |-> Whole(-3), N |-> 0, zj |-> Whole(1)],
      [z |-> Whole(1), N |-> 1, zj |-> Whole(-1)],
      [z |-> Whole(3), N |-> 2, zj |-> Whole(1)] }

\* np.random.poisson(lam): only zero jumps at rate zero.
PoissonCan(lam, n) == IF lam = F(0) THEN n = 0 ELSE n >= 0

\* The draws of the modelled calls, one cell per path and step: two cells
\* the generator can produce, alternating over the paths and steps.
DrawsFor(lambda_, num_steps, num_simulations) ==
    LET Cells == {c \in CellDraws : PoissonCan(FMul(lambda_, dt), c.N)}
    IN  { [p \in 1..num_simulations |->
              [t \in 1..num_steps |-> IF (p + t) % 2 = 0 THEN a ELSE b]] :
          a \in Cells, b \in Cells }

\* np.random.poisson raises ValueError for a negative or nan rate (line 88),
\* np.random.normal for a negative scale (line 89).
DrawsRaise(lambda_, sigma_J) ==
    \/ IsNaN(FMul(lambda_, dt))
    \/ FLt(FMul(lambda_, dt), F(0))
    \/ FLt(sigma_J, F(0))

\* Line 80: the jump drift correction term.
JumpCompensation(mu_J, sigma_J) ==
    FSub(FExp(FAdd(mu_J, FMul(Dec(50), FMul(sigma_J, sigma_J)))), Whole(1))

\* Lines 87-93 for one cell: the log return of one path over one step.
LogReturn(r, sigma, lambda_, mu_J, sigma_J, cell) ==
    LET m == JumpCompensation(mu_J, sigma_J)
        dW == FMul(FSqrt(dt), cell.z)
        jumps == FMul(FAdd(mu_J, FMul(sigma_J, cell.zj)), Whole(cell.N))
        diffusion ==
            FAdd(FMul(FSub(FSub(r, FMul(lambda_, m)), FMul(Dec(50), FMul(sigma, sigma))), dt),
                 FMul(sigma, dW))
    IN  FAdd(diffusion, jumps)

\* np.cumsum along a row: the running sum, left to right.
RECURSIVE CumSum(_, _)
CumSum(row, t) == IF t = 0 THEN F(0) ELSE FAdd(CumSum(row, t - 1), row[t])

\* Lines 83-84: column 0 of the array is set to the initial price.
Column0Zero(S0) == F(0)
Column0(S0) == S0

\* Line 97: np.maximum(S, 1e-8), entry by entry.
ClampNegative(x) == IF FLt(x, F(0)) THEN Floor ELSE x
Clamp(x) == FMaximum(x, Floor)

\* Lines 83-96: the array before the clamp.  Index 1 is column 0.
RawPaths(S0, r, sigma, lambda_, mu_J, sigma_J, num_steps, num_simulations, draws) ==
    [p \in 1..num_simulations |->
        LET lr == [t \in 1..num_steps |->
                      LogReturn(r, sigma, lambda_, mu_J, sigma_J, draws[p][t])]
        IN  [t \in 1..(num_steps + 1) |->
                IF t = 1 THEN Column0(S0) ELSE FMul(S0, FExp(CumSum(lr, t - 1)))]]

\* merton_jump_diffusion_paths, lines 61-99: the returned array, or the
\* exception the random-number calls raise.
merton_jump_diffusion_paths(S0, r, sigma, lambda_, mu_J, sigma_J, num_steps, num_simulations, draws) ==
    IF DrawsRaise(lambda_, sigma_J)
    THEN [exc |-> "ValueError", S |-> <<>>]
    ELSE LET raw == RawPaths(S0, r, sigma, lambda_, mu_J, sigma_J,
                             num_steps, num_simulations, draws)
         IN  [exc |-> "none",
              S |-> [p \in 1..num_simulations |->
                        [t \in 1..(num_steps + 1) |-> Clamp(raw[p][t])]]]

\* ------------------------------------------------- calibration objective
Min(a, b) == IF a < b THEN a ELSE b

\* Lines 129-130: the first n entries of a series.
Truncate(series, n) == [t \in 1..n |-> series[t]]

\* Line 133: any nan or any inf among the compared entries.
HasInvalidInfOnly(series) == \E t \in 1..Len(series) : IsInf(series[t])
HasInvalid(series) == \E t \in 1..Len(series) : IsNaN(series[t]) \/ IsInf(series[t])

\* Lines 122-125: log returns of each path, averaged over the paths at each
\* step.
MeanSimulatedReturns(S, num_steps, num_simulations) ==
    [t \in 1..num_steps |->
        FMean([p \in 1..num_simulations |-> FLog(FDiv(S[p][t + 1], S[p][t]))])]

\* Line 137: the mean of the squared differences.
MeanSquaredDiff(a, b) ==
    FMean([t \in 1..Len(a) |-> FMul(FSub(a[t], b[t]), FSub(a[t], b[t]))])

\* calculate_mse, lines 116-139.
calculate_mse(params, historical_returns, S0, r, num_steps, num_simulations, draws) ==
    LET sim == merton_jump_diffusion_paths(S0, r, params[1], params[2], params[3],
                                           params[4], num_steps, num_simulations, draws)
    IN  IF sim.exc # "none" THEN [exc |-> sim.exc, val |-> NaN]
        ELSE LET mean_all == MeanSimulatedReturns(sim.S, num_steps, num_simulations)
                 min_len == Min(Len(mean_all), Len(historical_returns))
                 mean_simulated_returns == Truncate(mean_all, min_len)
                 hist_returns == Truncate(historical_returns, min_len)
             IN  IF HasInvalid(mean_simulated_returns)
                 THEN [exc |-> "none", val |-> PInf]
                 ELSE [exc |-> "none",
                       val |-> MeanSquaredDiff(mean_simulated_returns, hist_returns)]

\* Parameter sets [sigma, lambda, mu_J, sigma_J] of the modelled calls: inside
\* the calibration box, its upper corner, without jumps, without jumps and
\* with a jump volatility whose compensation term overflows, and with a
\* negative intensity.
ParamSets ==
    { <<Dec(20), Dec(5), Dec(0), Dec(2)>>,
      <<Dec(200), Dec(100), Dec(-50), Dec(100)>>,
      <<Dec(20), Dec(0), Dec(0), Dec(2)>>,
      <<Dec(20), Dec(0), Dec(0), Whole(4)>>,
      <<Dec(20), Dec(-5), Dec(0), Dec(2)>> }

\* Historical log-return series of the modelled calls.
HistSets == { <<>>, <<Dec(-200)>>, <<Dec(1), Dec(-2)>> }

\* Initial prices: negative, zero, positive below the floor, the floor, above.
S0Set == { Whole(-1), F(0), F(1), Floor, Whole(1), Whole(100) }

PathInputs ==
    [S0 : S0Set, r : {F(0)}, params : ParamSets, hist : HistSets,
     num_steps : 0..MaxSteps, num_simulations : 0..MaxPaths]

NoPathOut == [exc |-> "none", S |-> <<>>, val |-> NaN]
NoPathIn ==
    [S0 |-> F(0), r |-> F(0), params |-> <<F(0), F(0), F(0), F(0)>>, hist |-> <<>>,
     num_steps |-> 0, num_simulations |-> 0]

PathIdle ==
    /\ path_in = NoPathIn
    /\ path_draws = <<>>
    /\ path_out = NoPathOut
    /\ path_pc = "idle"

\* A call merton_jump_diffusion_paths(S0, r, sigma, lambda_, mu_J, sigma_J,
\* num_steps, num_simulations).
CallMertonPaths ==
    /\ path_pc = "ready"
    /\ \E d \in DrawsFor(path_in.params[2], path_in.num_steps, path_in.num_simulations) :
          LET out == merton_jump_diffusion_paths(
                         path_in.S0, path_in.r, path_in.params[1], path_in.params[2],
                         path_in.params[3], path_in.params[4],
                         path_in.num_steps, path_in.num_simulations, d)
          IN  /\ path_draws' = d
              /\ path_out' = [exc |-> out.exc, S |-> out.S, val |-> NaN]
              /\ path_pc' = IF out.exc = "none" THEN "paths_returned" ELSE "raised"
    /\ UNCHANGED path_in

\* A call calculate_mse(params, historical_returns, S0, r, num_steps,
\* num_simulations).
CallCalculateMse ==
    /\ path_pc = "ready"
    /\ \E d \in DrawsFor(path_in.params[2], path_in.num_steps, path_in.num_simulations) :
          LET out == calculate_mse(path_in.params, path_in.hist, path_in.S0, path_in.r,
                                   path_in.num_steps, path_in.num_simulations, d)
          IN  /\ path_draws' = d
              /\ path_out' = [exc |-> out.exc, S |-> <<>>, val |-> out.val]
              /\ path_pc' = IF out.exc = "none" THEN "mse_returned" ELSE "raised"
    /\ UNCHANGED path_in

\* ------------------------------------------------------------ OptionPricer
\* The largest num_simulations of a modelled pricing call, and the largest
\* jump count np.random.poisson hands back in one.
MaxSims == 2
MaxJumpDraw == 1

\* Line 282: the jump-count hypotheses of the inner loop, range(10).
NumHypotheses == 10
\* Line 336: trading days per year.
TradingDays == 252
\* Line 290: the clamp on r_n * T; lines 297-298: the clamp on d1 and d2.
ExpClamp == 700
DClamp == 10

Undefined == [k |-> "undefined", v |-> 0]
UndefinedArray == [k |-> "undefined", v |-> <<>>]
Raised(e) == [exc |-> e, val |-> NaN]
Returned(x) == [exc |-> "none", val |-> x]

\* Lines 200-209: the Black-Scholes price from d1, d2 and the discount factor.
BlackScholesFormula(ST, K, d1, d2, discount_factor, option_type) ==
    IF option_type = "call"
    THEN Returned(FSub(FMul(ST, NormCdf(d1)),
                       FMul(FMul(K, discount_factor), NormCdf(d2))))
    ELSE IF option_type = "put"
    THEN Returned(FSub(FMul(FMul(K, discount_factor), NormCdf(FNeg(d2))),
                       FMul(ST, NormCdf(FNeg(d1)))))
    ELSE Raised("ValueError")

\* d1 of lines 200 and 294.
D1(ST, K, T, r, sigma) ==
    FDiv(FAdd(FLog(FDiv(ST, K)), FMul(FAdd(r, FMul(Dec(50), FMul(sigma, sigma))), T)),
         FMul(sigma, FSqrt(T)))

\* black_scholes_option_pricing, lines 198-209.
black_scholes_option_pricing(ST, K, T, r_annual, sigma_annual, option_type) ==
    LET d1 == D1(ST, K, T, r_annual, sigma_annual)
        d2 == FSub(d1, FMul(sigma_annual, FSqrt(T)))
    IN  BlackScholesFormula(ST, K, d1, d2, FExp(FNeg(FMul(r_annual, T))), option_type)

\* compute_jump_parameters, lines 226-244, for the drawn jump count; the
\* drawn Z is returned and never used.
compute_jump_parameters(r_annual, sigma_annual, lambda_annual, mu_J_annual, sigma_J_annual, T, n_jumps, Z) ==
    LET m_annual == FSub(FExp(FAdd(mu_J_annual,
                                   FMul(Dec(50), FMul(sigma_J_annual, sigma_J_annual)))),
                         Whole(1))
    IN  [n_jumps |-> n_jumps,
         Z |-> Z,
         m_annual |-> m_annual,
         r_n |-> FAdd(FSub(r_annual, FMul(lambda_annual, m_annual)),
                      FDiv(FMul(Whole(n_jumps), FLog(FAdd(Whole(1), m_annual))), T)),
         sigma_n |-> FSqrt(FAdd(FMul(sigma_annual, sigma_annual),
                                FDiv(FMul(Whole(n_jumps),
                                          FMul(sigma_J_annual, sigma_J_annual)), T))),
         lambda_n |-> FMul(lambda_annual, FAdd(Whole(1), m_annual))]

RECURSIVE Factorial(_)
Factorial(n) == IF n <= 1 THEN 1 ELSE n * Factorial(n - 1)

\* scipy.stats.poisson.logpmf(k, mu) = xlogy(k, mu) - gammaln(k + 1) - mu,
\* nan outside mu >= 0.
PoissonLogPmf(k, mu) ==
    IF ~IsFin(mu) \/ FLt(mu, F(0)) THEN NaN
    ELSE FSub(FSub(IF k = 0 THEN F(0) ELSE FMul(Whole(k), FLog(mu)),
                   FLog(Whole(Factorial(k)))),
              mu)

\* Lines 284-307: one pass of the inner loop body for the drawn jump count:
\* the weighted price it adds, or the exception it raises.
JumpsTerm(ST, K, T, r_annual, sigma_annual, lambda_annual, mu_J_annual, sigma_J_annual, option_type, n_drawn, Z) ==
    LET lamT == FMul(lambda_annual, T)
        jp == compute_jump_parameters(r_annual, sigma_annual, lambda_annual,
                                      mu_J_annual, sigma_J_annual, T, n_drawn, Z)
        poisson_weight == FExp(PoissonLogPmf(jp.n_jumps, FMul(jp.lambda_n, T)))
        safe_r_n_T == PyMax(PyMin(FMul(jp.r_n, T), Whole(ExpClamp)), Whole(-ExpClamp))
        discount_factor == FExp(FNeg(safe_r_n_T))
        d1 == D1(ST, K, T, jp.r_n, jp.sigma_n)
        d2 == FSub(d1, FMul(jp.sigma_n, FSqrt(T)))
        bsc == BlackScholesFormula(ST, K, FClip(d1, Whole(-DClamp), Whole(DClamp)),
                                   FClip(d2, Whole(-DClamp), Whole(DClamp)),
                                   discount_factor, option_type)
    IN  IF IsNaN(lamT) \/ FLt(lamT, F(0)) THEN Raised("ValueError")
        ELSE IF bsc.exc # "none" THEN bsc
        ELSE Returned(FMul(poisson_weight, bsc.val))

\* Line 311: bs_jumps_option_price / num_simulations.  The accumulator is
\* the Python int 0 when the loop body never ran, and int / int 0 raises.
JumpsResult(accum, ran, num_simulations) ==
    IF num_simulations = 0
    THEN (IF ran THEN Returned(FDiv(accum, Whole(0))) ELSE Raised("ZeroDivisionError"))
    ELSE Returned(FDiv(accum, Whole(num_simulations)))

\* Line 336: int(252 * T).
StepCount(T) == TDiv(FMul(Whole(TradingDays), T).v, One)

\* Lines 346-351: the payoff of one terminal price.
Payoff(terminal, K, option_type) ==
    IF option_type = "call" THEN Returned(FMaximum(FSub(terminal, K), F(0)))
    ELSE IF option_type = "put" THEN Returned(FMaximum(FSub(K, terminal), F(0)))
    ELSE Raised("ValueError")

\* Lines 345-355: payoffs of the terminal column, averaged and discounted.
DiscountedMeanPayoff(S, num_steps, num_simulations, r_annual, T, K, option_type) ==
    IF option_type \notin {"call", "put"} THEN Raised("ValueError")
    ELSE Returned(FMul(FExp(FNeg(FMul(r_annual, T))),
                       FMean([p \in 1..num_simulations |->
                                 Payoff(S[p][num_steps + 1], K, option_type).val])))

\* monte_carlo_option_pricing, lines 315-355.  The simulation of line 339
\* starts from the module-level ST and uses the module-level calibrated
\* parameters, whatever S0, sigma, lambda_, mu_J and sigma_J were passed; a
\* name that is not defined raises NameError.  The num_steps argument is
\* overwritten at line 336.
monte_carlo_option_pricing(S0, r, r_annual, sigma, lambda_, mu_J, sigma_J, T, K, option_type, num_simulations, num_steps, amb, draws) ==
    LET steps == StepCount(T)
    IN  IF amb.ST = Undefined \/ amb.params = UndefinedArray THEN Raised("NameError")
        ELSE LET sim == merton_jump_diffusion_paths(
                            amb.ST, r, amb.params.v[1], amb.params.v[2],
                            amb.params.v[3], amb.params.v[4],
                            steps, num_simulations, draws)
             IN  IF sim.exc # "none" THEN Raised(sim.exc)
                 ELSE DiscountedMeanPayoff(sim.S, steps, num_simulations,
                                           r_annual, T, K, option_type)

NoAmbient == [ST |-> Undefined, params |-> UndefinedArray]

\* Module-level names a pricing call can find: none (a fresh interpreter), ST
\* alone (main before line 408), or ST and the calibrated parameters.
AmbientStates ==
    { NoAmbient,
      [ST |-> Whole(50), params |-> UndefinedArray],
      [ST |-> Whole(50), params |-> Array(<<Dec(20), Dec(5), Dec(0), Dec(2)>>)],
      [ST |-> Whole(100), params |-> Array(<<Dec(200), Dec(100), Dec(-50), Dec(100)>>)] }

\* Arguments of the modelled pricing calls.
PriceArgs ==
    [S : {Whole(100)}, K : {Whole(90)}, T : {Dec(1), Whole(1)},
     r : {F(0)}, r_annual : {Dec(2)}, sigma : {Dec(20)},
     lambda_ : {F(0), Dec(50)}, mu_J : {Dec(-10)}, sigma_J : {Dec(10)},
     option_type : {"call", "put", "straddle"},
     num_simulations : 0..MaxSims, num_steps : {0}]
NoPriceArgs ==
    [S |-> F(0), K |-> F(0), T |-> F(0), r |-> F(0), r_annual |-> F(0), sigma |-> F(0),
     lambda_ |-> F(0), mu_J |-> F(0), sigma_J |-> F(0), option_type |-> "call",
     num_simulations |-> 0, num_steps |-> 0]

PriceIdle ==
    /\ p_args = NoPriceArgs
    /\ p_pc = "idle"
    /\ rep = 0
    /\ hyp = 0
    /\ acc = F(0)
    /\ p_out = Returned(NaN)
    /\ p_draws = <<>>

\* A call black_scholes_option_pricing(S, K, T, r_annual, sigma, option_type).
CallBlackScholes ==
    /\ p_pc = "ready"
    /\ p_out' = black_scholes_option_pricing(p_args.S, p_args.K, p_args.T,
                    p_args.r_annual, p_args.sigma, p_args.option_type)
    /\ p_pc' = "bs_done"
    /\ UNCHANGED <<p_args, rep, hyp, acc, p_draws, ambient>>

\* A call black_scholes_with_jumps(...): line 280.
EnterJumps ==
    /\ p_pc = "ready"
    /\ p_pc' = "jumps_loop"
    /\ rep' = 0
    /\ hyp' = 0
    /\ acc' = F(0)
    /\ UNCHANGED <<p_args, p_out, p_draws, ambient>>

\* One pass of the inner loop, lines 282-310, with fresh draws.
JumpsIteration ==
    /\ p_pc = "jumps_loop"
    /\ rep < p_args.num_simulations
    /\ \E n \in 0..MaxJumpDraw : \E Z \in {Whole(1)} :
          /\ PoissonCan(FMul(p_args.lambda_, p_args.T), n)
          /\ LET term == JumpsTerm(p_args.S, p_args.K, p_args.T, p_args.r_annual,
                                   p_args.sigma, p_args.lambda_, p_args.mu_J,
                                   p_args.sigma_J, p_args.option_type, n, Z)
             IN  IF term.exc # "none"
                 THEN /\ p_out' = term
                      /\ p_pc' = "jumps_done"
                      /\ UNCHANGED <<rep, hyp, acc>>
                 ELSE /\ acc' = FAdd(acc, term.val)
                      /\ hyp' = (hyp + 1) % NumHypotheses
                      /\ rep' = IF hyp + 1 = NumHypotheses THEN rep + 1 ELSE rep
                      /\ UNCHANGED <<p_out, p_pc>>
    /\ UNCHANGED <<p_args, p_draws, ambient>>

\* Line 311: the loops are over; divide and return.
JumpsReturn ==
    /\ p_pc = "jumps_loop"
    /\ rep = p_args.num_simulations
    /\ p_out' = JumpsResult(acc, rep > 0, p_args.num_simulations)
    /\ p_pc' = "jumps_done"
    /\ UNCHANGED <<p_args, rep, hyp, acc, p_draws, ambient>>

\* The draws a Monte Carlo call can make when the simulation runs at jump
\* intensity lam.
McDrawsAt(lam) == DrawsFor(lam, StepCount(p_args.T), p_args.num_simulations)
McDraws ==
    IF ambient.params = UndefinedArray THEN {<<>>} ELSE McDrawsAt(ambient.params.v[2])

\* A call monte_carlo_option_pricing(S, r, r_annual, sigma, lambda_, mu_J,
\* sigma_J, T, K, option_type, num_simulations, num_steps).
CallMonteCarlo ==
    /\ p_pc = "ready"
    /\ StepCount(p_args.T) <= MaxSteps
    /\ \E d \in McDraws :
          /\ p_draws' = d
          /\ p_out' = monte_carlo_option_pricing(p_args.S, p_args.r, p_args.r_annual,
                          p_args.sigma, p_args.lambda_, p_args.mu_J, p_args.sigma_J,
                          p_args.T, p_args.K, p_args.option_type,
                          p_args.num_simulations, p_args.num_steps, ambient, d)
    /\ p_pc' = "mc_done"
    /\ UNCHANGED <<p_args, rep, hyp, acc, ambient>>

\* ------------------------------------------------------------- Calibrator
\* The fixed box constraints: sigma, lambda, mu_J, sigma_J.
bounds ==
    << <<Dec(1), Dec(200)>>, <<Dec(1), Dec(100)>>, <<Dec(-50), Dec(50)>>, <<Dec(1), Dec(100)>> >>

\* What differential_evolution can hand back: a parameter vector inside the
\* box (here its corners), the objective there, and its success flag.
OptVectors ==
    { [c \in 1..4 |-> bounds[c][1]],
      [c \in 1..4 |-> bounds[c][2]],
      [c \in 1..4 |-> bounds[c][(c % 2) + 1]] }
OptResults == [x : OptVectors, fun : {F(0), Dec(4)}, success : BOOLEAN]

\* A search whose box is narrowed to the point it returns.
calibrate_warm_started(args, res) ==
    [args |-> args, bounds |-> [c \in 1..4 |-> <<res.x[c], res.x[c]>>],
     result |-> res, mse |-> res.fun]

\* calibrate_merton_parameters: one global search over the box, started from
\* the arguments alone; returns (result, result.fun).
calibrate_merton_parameters(args, res) ==
    [args |-> args, bounds |-> bounds, result |-> res, mse |-> res.fun]

\* Line 181: a run is retained when the optimizer flags it successful.
RetainedAlways(res) == TRUE
Retained(res) == res.success

\* Line 185: the truth value of the list of retained parameter vectors.
HasParamsBeyondOne(cp) == Len(cp) > 1
HasParams(cp) == cp # <<>>

\* np.mean(vectors, axis=0): the coordinate-wise mean.
MeanAxis0(vecs) == [c \in 1..4 |-> FMean([j \in 1..Len(vecs) |-> vecs[j][c]])]

NotReturned == [results |-> <<>>, avg_params |-> NoneArray, avg_mse |-> None]

\* The call run_multiple_calibrations(args, n): lines 175-177.
EnterCalibrations(args, n) ==
    /\ cal_args' = args
    /\ num_runs' = n
    /\ i' = 0
    /\ results' = <<>>
    /\ calibrated_parameters' = <<>>
    /\ mses' = <<>>
    /\ calls' = <<>>
    /\ ret' = NotReturned
    /\ cal_pc' = "loop"

\* One iteration of the loop, lines 178-184.
CalibrationRun ==
    /\ cal_pc = "loop"
    /\ i < num_runs
    /\ \E res \in OptResults :
          LET c == calibrate_merton_parameters(cal_args, res)
          IN  /\ calls' = Append(calls, c)
              /\ IF Retained(c.result)
                 THEN /\ results' = Append(results, c.result)
                      /\ calibrated_parameters' = Append(calibrated_parameters, c.result.x)
                      /\ mses' = Append(mses, c.mse)
                 ELSE UNCHANGED <<results, calibrated_parameters, mses>>
    /\ i' = i + 1
    /\ UNCHANGED <<cal_args, num_runs, ret, cal_pc>>

\* Lines 185-191: aggregate and return.
Aggregate ==
    /\ cal_pc = "loop"
    /\ i = num_runs
    /\ ret' = IF HasParams(calibrated_parameters)
              THEN [results |-> results,
                    avg_params |-> Array(MeanAxis0(calibrated_parameters)),
                    avg_mse |-> FMean(mses)]
              ELSE [results |-> results, avg_params |-> NoneArray, avg_mse |-> None]
    /\ cal_pc' = "returned"
    /\ UNCHANGED <<cal_args, num_runs, i, results, calibrated_parameters, mses, calls>>

\* Arguments a caller passes: the historical log returns, S0, r, num_steps
\* and the number of paths per objective evaluation.
CalArgSets ==
    [hist : {<<Dec(1), Dec(-2)>>, <<Dec(3)>>}, S0 : {Whole(100)}, r : {F(0)},
     num_steps : {1, 2}, num_paths : {1}]

vars == <<calVars, pathVars, priceVars, mainVars>>

NoMarket == [S0 |-> F(0), ST |-> F(0), num_steps |-> 0, log_returns |-> <<>>]
NoEntered == [T |-> F(0), K |-> F(0), option_type |-> ""]

MainIdle ==
    /\ main_pc = "idle"
    /\ printed = <<>>
    /\ invoked = {}
    /\ market = NoMarket
    /\ entered = NoEntered

InitCal ==
    /\ cal_args \in CalArgSets
    /\ num_runs \in 0..MaxRuns
    /\ i = 0
    /\ results = <<>>
    /\ calibrated_parameters = <<>>
    /\ mses = <<>>
    /\ calls = <<>>
    /\ ret = NotReturned
    /\ cal_pc = "loop"
    /\ PathIdle
    /\ PriceIdle
    /\ ambient = NoAmbient
    /\ MainIdle

NextCal ==
    \/ (CalibrationRun /\ UNCHANGED <<pathVars, priceVars, mainVars>>)
    \/ (Aggregate /\ UNCHANGED <<pathVars, priceVars, mainVars>>)

SpecCal == InitCal /\ [][NextCal]_vars

NoCalArgs == [hist |-> <<>>, S0 |-> F(0), r |-> F(0), num_steps |-> 0, num_paths |-> 0]

CalIdle ==
    /\ cal_args = NoCalArgs
    /\ num_runs = 0
    /\ i = 0
    /\ results = <<>>
    /\ calibrated_parameters = <<>>
    /\ mses = <<>>
    /\ calls = <<>>
    /\ ret = NotReturned
    /\ cal_pc = "idle"

InitPaths ==
    /\ path_in \in PathInputs
    /\ path_draws = <<>>
    /\ path_out = NoPathOut
    /\ path_pc = "ready"
    /\ CalIdle
    /\ PriceIdle
    /\ ambient = NoAmbient
    /\ MainIdle

NextPaths ==
    \/ (CallMertonPaths /\ UNCHANGED <<calVars, priceVars, mainVars>>)
    \/ (CallCalculateMse /\ UNCHANGED <<calVars, priceVars, mainVars>>)

SpecPaths == InitPaths /\ [][NextPaths]_vars

InitPrice ==
    /\ ambient \in AmbientStates
    /\ p_args \in PriceArgs
    /\ p_pc = "ready"
    /\ rep = 0
    /\ hyp = 0
    /\ acc = F(0)
    /\ p_out = Returned(NaN)
    /\ p_draws = <<>>
    /\ CalIdle
    /\ PathIdle
    /\ MainIdle

NextPrice ==
    \/ (CallBlackScholes /\ UNCHANGED <<calVars, pathVars, mainVars>>)
    \/ (EnterJumps /\ UNCHANGED <<calVars, pathVars, mainVars>>)
    \/ (JumpsIteration /\ UNCHANGED <<calVars, pathVars, mainVars>>)
    \/ (JumpsReturn /\ UNCHANGED <<calVars, pathVars, mainVars>>)
    \/ (CallMonteCarlo /\ UNCHANGED <<calVars, pathVars, mainVars>>)

SpecPrice == InitPrice /\ [][NextPrice]_vars

\* ------------------------------------------------------------ the script
\* What stands in the model for the script's num_simulations = 100000 paths
\* (line 380) and for the 1000 outer repetitions of line 443 is the largest
\* count of the modelled direct calls, MaxPaths and MaxSims.

\* Line 378: r = 0.0002, on the grid.
DailyRate == F((2 * One) \div 10000)

\* compute_log_returns: np.log(prices / prices.shift(1)).dropna().
compute_log_returns(prices) ==
    SelectSeq([t \in 1..(Len(prices) - 1) |-> FLog(FDiv(prices[t + 1], prices[t]))],
              LAMBDA x : ~IsNaN(x))

\* The 'Adj Close' columns of the modelled workbooks.
PriceColumns ==
    { <<Whole(100), Whole(50)>>, <<Whole(100), Whole(110), Whole(100)>> }

\* float(input(...)) of what the user types: a number, or text float() rejects.
TypedT == { [ok |-> TRUE, val |-> Dec(1)], [ok |-> FALSE, val |-> NaN] }
TypedK == { [ok |-> TRUE, val |-> Whole(90)], [ok |-> FALSE, val |-> NaN] }
\* input(...).strip().lower() of what the user types, as the text it yields.
TypedOptionTypes == {"call", "put", "straddle"}

\* The handler of lines 499-500: any exception but FileNotFoundError.
ErrorOccurred ==
    /\ printed' = Append(printed, "An error occurred")
    /\ main_pc' = "exit"

\* Lines 365-398: read the workbook, derive the series, print the guesses;
\* lines 400-402 then call run_multiple_calibrations with num_runs = 1.
MainLoadData ==
    /\ main_pc = "start"
    /\ \/ /\ printed' = Append(printed, "Error: File not found")
          /\ main_pc' = "exit"
          /\ UNCHANGED <<market, ambient, calVars>>
       \/ /\ ErrorOccurred
          /\ UNCHANGED <<market, ambient, calVars>>
       \/ \E prices \in PriceColumns :
             LET log_returns == compute_log_returns(prices)
                 S0 == prices[1]
                 ST == prices[Len(prices)]
                 num_steps == Len(prices) - 1
             IN  /\ market' = [S0 |-> S0, ST |-> ST, num_steps |-> num_steps,
                               log_returns |-> log_returns]
                 /\ ambient' = [ambient EXCEPT !.ST = ST]
                 /\ printed' = printed \o <<"Total number of historical jumps",
                                            "Initial guesses">>
                 /\ EnterCalibrations([hist |-> log_returns, S0 |-> S0, r |-> DailyRate,
                                       num_steps |-> num_steps, num_paths |-> 1], 1)
                 /\ main_pc' = "calibrating"
    /\ UNCHANGED <<invoked, entered, pathVars, p_args, p_pc, rep, hyp, acc, p_out, p_draws>>

\* Lines 404-413 and 493-494: print the mean MSE, then either unpack the
\* mean parameters into the module-level names or report that there are none.
MainReport ==
    /\ main_pc = "calibrating"
    /\ cal_pc = "returned"
    /\ IF ret.avg_mse = None
       THEN \* format(None, ".6f") raises TypeError
            /\ ErrorOccurred
            /\ UNCHANGED ambient
       ELSE IF ret.avg_params # NoneArray
            THEN /\ ambient' = [ambient EXCEPT !.params = ret.avg_params]
                 /\ printed' = printed \o <<"MSE", "Average Calibrated Parameters">>
                 /\ main_pc' = "simulate"
            ELSE /\ printed' = printed \o <<"MSE", "No successful calibration runs">>
                 /\ main_pc' = "exit"
                 /\ UNCHANGED ambient
    /\ UNCHANGED <<invoked, market, entered, calVars, pathVars,
                   p_args, p_pc, rep, hyp, acc, p_out, p_draws>>

\* Lines 416-425: simulate paths with the calibrated parameters.
MainSimulate ==
    /\ main_pc = "simulate"
    /\ LET c == ambient.params.v
       IN  \E d \in DrawsFor(c[2], market.num_steps, MaxPaths) :
              LET out == merton_jump_diffusion_paths(market.S0, DailyRate, c[1], c[2],
                             c[3], c[4], market.num_steps, MaxPaths, d)
              IN  /\ path_in' = [S0 |-> market.S0, r |-> DailyRate, params |-> c,
                                 hist |-> market.log_returns,
                                 num_steps |-> market.num_steps,
                                 num_simulations |-> MaxPaths]
                  /\ path_draws' = d
                  /\ path_out' = [exc |-> out.exc, S |-> out.S, val |-> NaN]
                  /\ path_pc' = IF out.exc = "none" THEN "paths_returned" ELSE "raised"
                  /\ IF out.exc = "none"
                     THEN /\ main_pc' = "inputs"
                          /\ UNCHANGED printed
                     ELSE ErrorOccurred
    /\ invoked' = invoked \cup {"merton_jump_diffusion_paths"}
    /\ UNCHANGED <<market, entered, calVars, priceVars>>

\* Lines 428-432: the daily parameters, annualized.
Annualized ==
    LET c == ambient.params.v
    IN  [r_annual |-> FMul(DailyRate, Whole(TradingDays)),
         sigma_annual |-> FMul(c[1], FSqrt(Whole(TradingDays))),
         lambda_annual |-> FMul(c[2], Whole(TradingDays)),
         mu_J_annual |-> FMul(c[3], Whole(TradingDays)),
         sigma_J_annual |-> FMul(c[4], FSqrt(Whole(TradingDays)))]

\* Lines 435-438: print the spot and read T, K and the option type.
MainReadInputs ==
    /\ main_pc = "inputs"
    /\ \E T \in TypedT, K \in TypedK, option_type \in TypedOptionTypes :
          IF T.ok /\ K.ok
          THEN /\ entered' = [T |-> T.val, K |-> K.val, option_type |-> option_type]
               /\ printed' = Append(printed, "S")
               /\ main_pc' = "black_scholes"
          ELSE \* float() raises ValueError
               /\ printed' = printed \o <<"S", "An error occurred">>
               /\ main_pc' = "exit"
               /\ UNCHANGED entered
    /\ UNCHANGED <<invoked, market, calVars, pathVars, priceVars>>

\* The arguments of the three pricing calls of lines 440, 443 and 446.
MainPriceArgs(S, sigma, lambda_, mu_J, sigma_J, num_simulations, num_steps) ==
    [S |-> S, K |-> entered.K, T |-> entered.T, r |-> DailyRate,
     r_annual |-> Annualized.r_annual, sigma |-> sigma, lambda_ |-> lambda_,
     mu_J |-> mu_J, sigma_J |-> sigma_J, option_type |-> entered.option_type,
     num_simulations |-> num_simulations, num_steps |-> num_steps]

\* Lines 440-441: the closed-form price at ST.
MainBlackScholes ==
    /\ main_pc = "black_scholes"
    /\ LET a == MainPriceArgs(ambient.ST, Annualized.sigma_annual, F(0), F(0), F(0), 0, 0)
           out == black_scholes_option_pricing(a.S, a.K, a.T, a.r_annual, a.sigma,
                                               a.option_type)
       IN  /\ p_args' = a
           /\ p_out' = out
           /\ p_pc' = "bs_done"
           /\ IF out.exc = "none"
              THEN /\ printed' = Append(printed, "Black-Scholes option price")
                   /\ main_pc' = "jumps"
              ELSE ErrorOccurred
    /\ invoked' = invoked \cup {"black_scholes_option_pricing"}
    /\ UNCHANGED <<market, entered, calVars, pathVars, ambient, rep, hyp, acc, p_draws>>

\* Line 443: call black_scholes_with_jumps at S0 with the annualized
\* parameters.
MainEnterJumps ==
    /\ main_pc = "jumps"
    /\ p_pc = "bs_done"
    /\ p_args' = MainPriceArgs(market.S0, Annualized.sigma_annual,
                     Annualized.lambda_annual, Annualized.mu_J_annual,
                     Annualized.sigma_J_annual, MaxSims, 0)
    /\ p_pc' = "jumps_loop"
    /\ rep' = 0
    /\ hyp' = 0
    /\ acc' = F(0)
    /\ invoked' = invoked \cup {"black_scholes_with_jumps"}
    /\ UNCHANGED <<main_pc, printed, market, entered, calVars, pathVars,
                   ambient, p_out, p_draws>>

\* Lines 443-444: black_scholes_with_jumps is back.
MainAfterJumps ==
    /\ main_pc = "jumps"
    /\ p_pc = "jumps_done"
    /\ IF p_out.exc = "none"
       THEN /\ printed' = Append(printed, "Black-Scholes with jumps option price")
            /\ main_pc' = "monte_carlo"
       ELSE ErrorOccurred
    /\ p_pc' = "jumps_reported"
    /\ UNCHANGED <<invoked, market, entered, calVars, pathVars,
                   ambient, p_args, rep, hyp, acc, p_out, p_draws>>

\* Lines 446-447: the Monte Carlo price, called with the daily parameters
\* and num_steps = None.
MainMonteCarlo ==
    /\ main_pc = "monte_carlo"
    /\ LET c == ambient.params.v
           a == MainPriceArgs(market.S0, c[1], c[2], c[3], c[4], MaxPaths, None)
       IN  /\ StepCount(a.T) <= MaxSteps
           /\ \E d \in DrawsFor(c[2], StepCount(a.T), MaxPaths) :
                 LET out == monte_carlo_option_pricing(a.S, a.r, a.r_annual, a.sigma,
                                a.lambda_, a.mu_J, a.sigma_J, a.T, a.K, a.option_type,
                                a.num_simulations, a.num_steps, ambient, d)
                 IN  /\ p_args' = a
                     /\ p_draws' = d
                     /\ p_out' = out
                     /\ p_pc' = "mc_done"
                     /\ IF out.exc = "none"
                        THEN /\ printed' = Append(printed, "Monte Carlo option price")
                             /\ main_pc' = "plots"
                        ELSE ErrorOccurred
    /\ invoked' = invoked \cup {"monte_carlo_option_pricing"}
    /\ UNCHANGED <<market, entered, calVars, pathVars, ambient, rep, hyp, acc>>

\* Lines 449-491: cut the paths to the length of the price column, plot, and
\* print the mean terminal value.
MainPlots ==
    /\ main_pc = "plots"
    /\ LET min_length == Min(market.num_steps + 1, market.num_steps + 1)
       IN  path_out' = [path_out EXCEPT
               !.S = [p \in 1..Len(path_out.S) |-> Truncate(path_out.S[p], min_length)]]
    /\ printed' = Append(printed, "Average simulated value at final time step")
    /\ main_pc' = "exit"
    /\ UNCHANGED <<invoked, market, entered, calVars, path_in, path_draws, path_pc,
                   priceVars>>

InitMain ==
    /\ main_pc = "start"
    /\ printed = <<>>
    /\ invoked = {}
    /\ market = NoMarket
    /\ entered = NoEntered
    /\ ambient = NoAmbient
    /\ CalIdle
    /\ PathIdle
    /\ p_args = NoPriceArgs
    /\ p_pc = "idle"
    /\ rep = 0
    /\ hyp = 0
    /\ acc = F(0)
    /\ p_out = Returned(NaN)
    /\ p_draws = <<>>

NextMain ==
    \/ MainLoadData
    \/ (CalibrationRun /\ main_pc = "calibrating"
            /\ UNCHANGED <<pathVars, priceVars, mainVars>>)
    \/ (Aggregate /\ main_pc = "calibrating"
            /\ UNCHANGED <<pathVars, priceVars, mainVars>>)
    \/ MainReport
    \/ MainSimulate
    \/ MainReadInputs
    \/ MainBlackScholes
    \/ MainEnterJumps
    \/ (JumpsIteration /\ main_pc = "jumps"
            /\ UNCHANGED <<calVars, pathVars, mainVars>>)
    \/ (JumpsReturn /\ main_pc = "jumps"
            /\ UNCHANGED <<calVars, pathVars, mainVars>>)
    \/ MainAfterJumps
    \/ MainMonteCarlo
    \/ MainPlots

SpecMain == InitMain /\ [][NextMain]_vars


\* --------------------------------------- the aggregate in binary floats
\* np.mean over the retained vectors is computed in binary floating point:
\* the box constants are the floats nearest to the decimal literals, the
\* running sum is rounded after every addition and the quotient once more.
\* A float is modelled here as an integer count of 2^-FracBits, rounded to
\* MantissaBits significant bits (to nearest, ties to even).

\* Significand width of the modelled floats (53 in the build), the number of
\* fractional bits of the grid they live on, and the largest num_runs of a
\* modelled call.
MantissaBits == 4
FracBits == 14
MaxAggRuns == 6

RECURSIVE BitLength(_)
BitLength(n) == IF n = 0 THEN 0 ELSE 1 + BitLength(n \div 2)

\* The spacing of the floats around n.
Ulp(n) ==
    LET b == BitLength(Abs(n))
    IN  IF b <= MantissaBits THEN 1 ELSE 2 ^ (b - MantissaBits)

\* The float nearest to num / den (den > 0).
RoundRatio(num, den) ==
    LET a == Abs(num)
        u == Ulp(a \div den)
        k == a \div (den * u)
        rem == a % (den * u)
        up == 2 * rem > den * u \/ (2 * rem = den * u /\ k % 2 = 1)
    IN  Sgn(num) * (IF up THEN k + 1 ELSE k) * u

\* The float a decimal literal of the source denotes.
FromDecimal(x) == RoundRatio(x.v * 2 ^ FracBits, One)

BinAdd(a, b) == RoundRatio(a + b, 1)

\* The running sum over the first n rows, row after row.
RECURSIVE BinSumTo(_, _)
BinSumTo(s, n) == IF n = 0 THEN 0 ELSE BinAdd(BinSumTo(s, n - 1), s[n])

\* np.mean of a non-empty one-dimensional sequence: the sum, then the
\* division by the count.
BinSumOnly(s) == BinSumTo(s, Len(s))
BinMean(s) == RoundRatio(BinSumTo(s, Len(s)), Len(s))

\* np.mean(vectors, axis=0)
BinMeanAxis0(vecs) == [c \in 1..4 |-> BinMean([j \in 1..Len(vecs) |-> vecs[j][c]])]

\* The box of lines 153-158 as the floats the literals denote.
BinBounds == [c \in 1..4 |-> <<FromDecimal(bounds[c][1]), FromDecimal(bounds[c][2])>>]

\* What differential_evolution can hand back: the two extreme corners of
\* the box, the objective there, and its success flag.
BinOptResults ==
    [x : { [c \in 1..4 |-> BinBounds[c][1]], [c \in 1..4 |-> BinBounds[c][2]] },
     fun : {FromDecimal(Dec(4))}, success : BOOLEAN]

\* One iteration of the loop, lines 178-184.
BinCalibrationRun ==
    /\ cal_pc = "loop"
    /\ i < num_runs
    /\ \E res \in BinOptResults :
          LET c == [args |-> cal_args, bounds |-> BinBounds, result |-> res,
                    mse |-> res.fun]
          IN  /\ calls' = Append(calls, c)
              /\ IF Retained(c.result)
                 THEN /\ results' = Append(results, c.result)
                      /\ calibrated_parameters' = Append(calibrated_parameters, c.result.x)
                      /\ mses' = Append(mses, c.mse)
                 ELSE UNCHANGED <<results, calibrated_parameters, mses>>
    /\ i' = i + 1
    /\ UNCHANGED <<cal_args, num_runs, ret, cal_pc>>

\* Lines 185-191: aggregate and return.
BinAggregate ==
    /\ cal_pc = "loop"
    /\ i = num_runs
    /\ ret' = IF HasParams(calibrated_parameters)
              THEN [results |-> results,
                    avg_params |-> Array(BinMeanAxis0(calibrated_parameters)),
                    avg_mse |-> BinMean(mses)]
              ELSE [results |-> results, avg_params |-> NoneArray, avg_mse |-> None]
    /\ cal_pc' = "returned"
    /\ UNCHANGED <<cal_args, num_runs, i, results, calibrated_parameters, mses, calls>>

InitBin ==
    /\ cal_args \in CalArgSets
    /\ num_runs \in 0..MaxAggRuns
    /\ i = 0
    /\ results = <<>>
    /\ calibrated_parameters = <<>>
    /\ mses = <<>>
    /\ calls = <<>>
    /\ ret = NotReturned
    /\ cal_pc = "loop"
    /\ PathIdle
    /\ PriceIdle
    /\ ambient = NoAmbient
    /\ MainIdle

NextBin ==
    \/ (BinCalibrationRun /\ UNCHANGED <<pathVars, priceVars, mainVars>>)
    \/ (BinAggregate /\ UNCHANGED <<pathVars, priceVars, mainVars>>)

SpecBin == InitBin /\ [][NextBin]_vars

\* ------------------------------------------------------- claims: calibrator
SuccessfulCalls == SelectSeq(calls, LAMBDA c : c.result.success)
RECURSIVE IntSum(_)
IntSum(s) == IF s = <<>> THEN 0 ELSE Head(s) + IntSum(Tail(s))

\* C1: when at least one run succeeds, the returned aggregate parameters are
\* the coordinate-wise arithmetic mean of exactly the successful runs'
\* vectors and the aggregate error is the mean of exactly their objective
\* values; unsuccessful runs contribute nothing.
C1_MeanOfSuccessful ==
    (cal_pc = "returned" /\ SuccessfulCalls # <<>>) =>
        LET n == Len(SuccessfulCalls)
        IN  /\ ret.avg_params.k = "array"
            /\ \A c \in 1..4 :
                  ret.avg_params.v[c] =
                      F(TDiv(IntSum([j \in 1..n |-> SuccessfulCalls[j].result.x[c].v]), n))
            /\ ret.avg_mse =
                  F(TDiv(IntSum([j \in 1..n |-> SuccessfulCalls[j].result.fun.v]), n))

\* C1 witness: three runs, one failed, the other two with different vectors.
C1_Witness ==
    /\ cal_pc = "returned"
    /\ Len(calls) = 3
    /\ Len(SuccessfulCalls) = 2
    /\ ~calls[2].result.success
    /\ calls[1].result.x # calls[3].result.x
    /\ calls[2].result.x # calls[1].result.x
    /\ ret.avg_params.k = "array"

NoSuccess == \A j \in 1..Len(calls) : ~calls[j].result.success

\* C3: the returned triple is the no-result signal (parameters None, error
\* None, no retained results) exactly when no run was flagged successful,
\* num_runs = 0 included; a numeric average is never returned in that case.
C3_NoResultIffNoSuccess ==
    cal_pc = "returned" =>
        /\ Len(calls) = num_runs
        /\ (ret.avg_params = NoneArray /\ ret.avg_mse = None /\ ret.results = <<>>)
              <=> NoSuccess
        /\ NoSuccess <=> ret.avg_params.k = "None"
        /\ NoSuccess <=> ret.avg_mse.k = "None"

\* C3 witness: several runs, all unsuccessful, and the signal returned.
C3_Witness ==
    /\ cal_pc = "returned"
    /\ num_runs >= 2
    /\ NoSuccess
    /\ ret = [results |-> <<>>, avg_params |-> NoneArray, avg_mse |-> None]

\* C11: an unsuccessful run is not fatal: whatever the success flags of the
\* earlier runs, run_multiple_calibrations starts one run per loop index, in
\* order, exactly num_runs of them by the time it returns, and every run is
\* started with the same inputs (historical returns, S0, r, num_steps,
\* num_paths) and the fixed bounds, nothing of an earlier result among them.
C11_EveryRunStartedAlike ==
    /\ Len(calls) = i
    /\ i <= num_runs
    /\ cal_pc = "returned" => Len(calls) = num_runs
    /\ \A j \in 1..Len(calls) :
          /\ calls[j].args = cal_args
          /\ calls[j].bounds = bounds

\* C11 witness: three runs were started although the first two were flagged
\* unsuccessful, the two with different vectors.
C11_Witness ==
    /\ cal_pc = "returned"
    /\ num_runs = 3
    /\ Len(calls) = 3
    /\ ~calls[1].result.success
    /\ ~calls[2].result.success
    /\ calls[3].result.success
    /\ calls[1].result.x # calls[2].result.x

\* The retained vectors all lie inside the box, and an aggregate was returned.
InBox(v) == \A c \in 1..4 : BinBounds[c][1] <= v[c] /\ v[c] <= BinBounds[c][2]
AggregateReturned ==
    /\ cal_pc = "returned"
    /\ ret.avg_params.k = "array"
    /\ \A j \in 1..Len(calibrated_parameters) : InBox(calibrated_parameters[j])

\* C12 as stated: when every run's vector lies inside the box, every
\* non-empty aggregate vector lies inside the box too (and so has sigma > 0,
\* lambda >= 0, sigma_J > 0).
C12_AggregateInsideBox ==
    AggregateReturned => InBox(ret.avg_params.v)

\* C12, amended: when every run's vector lies inside the box, every
\* non-empty aggregate vector has sigma > 0, lambda > 0 and sigma_J > 0, no
\* component above its upper bound and mu_J not below its lower bound; a
\* component can fall below its lower bound only by the rounding of the
\* mean, at most one part in 2^MantissaBits per retained run.
C12_AggregateInsideBoxUpToRounding ==
    AggregateReturned =>
        LET avg == ret.avg_params.v
            n == Len(calibrated_parameters)
        IN  /\ avg[1] > 0
            /\ avg[2] > 0
            /\ avg[4] > 0
            /\ \A c \in 1..4 : avg[c] <= BinBounds[c][2]
            /\ avg[3] >= BinBounds[3][1]
            /\ \A c \in {1, 2, 4} :
                  avg[c] * 2 ^ MantissaBits >= BinBounds[c][1] * (2 ^ MantissaBits - n)
            /\ n = 1 => avg = calibrated_parameters[1]

\* C12 witness: every retained run sits on the lower corner of the box and
\* the mean of sigma comes out below the lower bound of sigma.
C12_Witness ==
    /\ AggregateReturned
    /\ \A j \in 1..Len(calibrated_parameters) :
          calibrated_parameters[j][1] = BinBounds[1][1]
    /\ ret.avg_params.v[1] < BinBounds[1][1]
    /\ ret.avg_params.v[1] > 0

\* ---------------------------------------------------- claims: PathSimulator
PathsReturned == path_pc = "paths_returned"
Rows == 1..path_in.num_simulations
Cols == 1..(path_in.num_steps + 1)
\* The array of the call before line 97 clamps it.
Unclamped ==
    RawPaths(path_in.S0, path_in.r, path_in.params[1], path_in.params[2],
             path_in.params[3], path_in.params[4],
             path_in.num_steps, path_in.num_simulations, path_draws)

\* A valid parameter set: a positive initial price and the ModelParameters
\* invariant sigma > 0, lambda >= 0, sigma_J > 0.
ValidParameterSet ==
    /\ FLt(F(0), path_in.S0)
    /\ FLt(F(0), path_in.params[1])
    /\ FGe(path_in.params[2], F(0))
    /\ FLt(F(0), path_in.params[4])

\* C7 as stated: for a valid parameter set, column 0 of every returned path
\* equals S0 exactly, also after the floor clamp.
C7_Column0EqualsS0 ==
    (PathsReturned /\ ValidParameterSet) =>
        \A p \in Rows : path_out.S[p][1] = path_in.S0

\* C7, amended: column 0 of every returned path equals S0 exactly when S0 is
\* at least the floor, and equals the floor when S0 is below it.
C7_Column0EqualsS0FromFloor ==
    PathsReturned =>
        \A p \in Rows :
            path_out.S[p][1] = IF FLt(path_in.S0, Floor) THEN Floor ELSE path_in.S0

\* C7 witness: two paths of two steps from a price above the floor, with a
\* later entry clamped and column 0 still the initial price.
C7_Witness ==
    /\ PathsReturned
    /\ path_in.num_simulations = 2
    /\ path_in.num_steps = 2
    /\ path_in.S0 = Whole(100)
    /\ \E p \in Rows : \E t \in Cols : t > 1 /\ path_out.S[p][t] # Unclamped[p][t]
    /\ \A p \in Rows : path_out.S[p][1] = Whole(100)

\* C8 as stated: every entry of every returned array is at least the floor,
\* whatever the draws produce, not-a-number included.
C8_AllEntriesAtLeastFloor ==
    (PathsReturned /\ ValidParameterSet) =>
        \A p \in Rows : \A t \in Cols : FGe(path_out.S[p][t], Floor)

\* C8, amended: every entry of every returned array that is a number is at
\* least the floor; an entry is not a number exactly when it was so before
\* the clamp.
C8_NumbersAtLeastFloor ==
    PathsReturned =>
        \A p \in Rows : \A t \in Cols :
            /\ path_out.S[p][t].k = "nan" <=> Unclamped[p][t].k = "nan"
            /\ path_out.S[p][t].k # "nan" => FGe(path_out.S[p][t], Floor)

\* C8 witness: a positive initial price, an entry that underflowed to zero
\* and is returned as the floor.
C8_Witness ==
    /\ PathsReturned
    /\ FLt(Floor, path_in.S0)
    /\ \E p \in Rows : \E t \in Cols :
          t > 1 /\ Unclamped[p][t] = F(0) /\ path_out.S[p][t] = Floor

MseReturned == path_pc = "mse_returned"
\* The path-averaged simulated log-return series of the call, all steps.
AveragedReturns ==
    MeanSimulatedReturns(
        merton_jump_diffusion_paths(path_in.S0, path_in.r, path_in.params[1],
            path_in.params[2], path_in.params[3], path_in.params[4],
            path_in.num_steps, path_in.num_simulations, path_draws).S,
        path_in.num_steps, path_in.num_simulations)
Window == Min(path_in.num_steps, Len(path_in.hist))
RECURSIVE SumSquares(_, _, _)
SumSquares(a, b, n) ==
    IF n = 0 THEN 0
    ELSE SumSquares(a, b, n - 1) + TDiv((a[n].v - b[n].v) * (a[n].v - b[n].v), One)

\* C9 as stated, for calls with a valid parameter set, at least one path and
\* at least one entry to compare: +infinity whenever the averaged series holds a non-finite
\* entry at any step, whatever the two lengths; for finite inputs with
\* something to compare a non-negative value, the mean squared difference
\* over the first min(len, len) entries.
C9_InfOnAnyNonFinite ==
    (MseReturned /\ ValidParameterSet /\ path_in.num_simulations >= 1 /\ Window >= 1) =>
        /\ (\E t \in 1..path_in.num_steps : AveragedReturns[t].k # "fin")
              => path_out.val = PInf
        /\ (Window >= 1 /\ \A t \in 1..path_in.num_steps : AveragedReturns[t].k = "fin")
              => /\ FGe(path_out.val, F(0))
                 /\ path_out.val =
                        Norm(TDiv(SumSquares(AveragedReturns, path_in.hist, Window), Window))

\* C9, amended: +infinity whenever one of the first min(len, len) entries of
\* the averaged series is non-finite; when they are all finite and there is
\* at least one, a non-negative value, their mean squared difference from
\* the historical entries; when there is none, not-a-number.
C9_InfOnNonFiniteInWindow ==
    MseReturned =>
        /\ (\E t \in 1..Window : AveragedReturns[t].k # "fin") => path_out.val = PInf
        /\ (Window >= 1 /\ \A t \in 1..Window : AveragedReturns[t].k = "fin")
              => /\ FGe(path_out.val, F(0))
                 /\ path_out.val =
                        Norm(TDiv(SumSquares(AveragedReturns, path_in.hist, Window), Window))
        /\ Window = 0 => path_out.val = NaN

\* C9 witness: a not-a-number entry inside the compared window, and the
\* sentinel returned.
C9_Witness ==
    /\ MseReturned
    /\ Window >= 1
    /\ \E t \in 1..Window : AveragedReturns[t].k = "nan"
    /\ \A t \in 1..Window : AveragedReturns[t].k # "inf"
    /\ path_out.val = PInf

\* ----------------------------------------------------- claims: OptionPricer
PricingDone == p_pc \in {"bs_done", "jumps_done", "mc_done"}
ValidType == p_args.option_type \in {"call", "put"}

\* C4 as stated: for an option_type other than 'call' and 'put', whatever
\* the other arguments, each of the three pricing routines ends with
\* ValueError and returns no price.
C4_InvalidTypeRaisesValueError ==
    (PricingDone /\ ~ValidType) => p_out.exc = "ValueError"

\* C5 as stated: with lambda = 0 exactly and num_simulations >= 1,
\* black_scholes_with_jumps returns the price black_scholes_option_pricing
\* returns for the same S, K, T, r, sigma and option type.
C5_ZeroLambdaEqualsBlackScholes ==
    (p_pc = "jumps_done" /\ p_args.lambda_ = F(0) /\ p_args.num_simulations >= 1
        /\ ValidType) =>
        p_out = black_scholes_option_pricing(p_args.S, p_args.K, p_args.T,
                    p_args.r_annual, p_args.sigma, p_args.option_type)

\* The Monte Carlo call of the state, repeated with the same arguments and
\* draws under module-level names amb.
MonteCarloUnder(amb) ==
    monte_carlo_option_pricing(p_args.S, p_args.r, p_args.r_annual, p_args.sigma,
        p_args.lambda_, p_args.mu_J, p_args.sigma_J, p_args.T, p_args.K,
        p_args.option_type, p_args.num_simulations, p_args.num_steps, amb, p_draws)

\* C6 as stated: the Monte Carlo result is determined by the explicit
\* arguments and the random draws alone: the same call with the same draws
\* ends the same way under every module-level state, and needs none.
C6_MonteCarloIgnoresAmbient ==
    p_pc = "mc_done" =>
        /\ p_out.exc # "NameError"
        /\ \A amb \in AmbientStates :
              (amb.params # UndefinedArray /\ p_draws \in McDrawsAt(amb.params.v[2]))
                  => MonteCarloUnder(amb) = p_out

\* C10 as stated: the Monte Carlo price is exp(-r_annual T) times the mean
\* payoff over the terminal column of num_simulations paths of int(252 T)
\* steps simulated from the spot price and parameters it is given; the
\* num_steps argument has no effect and the price is never negative.
C10_MonteCarloFromGivenSpot ==
    (p_pc = "mc_done" /\ ValidType /\ p_draws \in McDrawsAt(p_args.lambda_)) =>
        /\ p_out = DiscountedMeanPayoff(
                       merton_jump_diffusion_paths(p_args.S, p_args.r, p_args.sigma,
                           p_args.lambda_, p_args.mu_J, p_args.sigma_J,
                           StepCount(p_args.T), p_args.num_simulations, p_draws).S,
                       StepCount(p_args.T), p_args.num_simulations,
                       p_args.r_annual, p_args.T, p_args.K, p_args.option_type)
        /\ ~FLt(p_out.val, F(0))
        /\ \A n \in 0..(TradingDays + 1) :
              monte_carlo_option_pricing(p_args.S, p_args.r, p_args.r_annual,
                  p_args.sigma, p_args.lambda_, p_args.mu_J, p_args.sigma_J, p_args.T,
                  p_args.K, p_args.option_type, p_args.num_simulations, n,
                  ambient, p_draws) = p_out

\* ------------------------------------------------------- claims: the script
\* C2 as stated: when zero calibration runs succeed, the script invokes
\* none of the three pricing routines nor the post-calibration simulation,
\* and ends at the explicit 'No successful calibration runs' message rather
\* than at any other outcome.
C2_NoSuccessEndsAtExplicitStop ==
    (main_pc = "exit" /\ cal_pc = "returned" /\ NoSuccess) =>
        /\ invoked = {}
        /\ printed[Len(printed)] = "No successful calibration runs"

====
